---- MODULE Spec2Model ----
(***************************************************************************)
(* HSTParser (src/src/hst_reader.ts): a cursor over a fixed-record binary  *)
(* history file.  The file on disk is fixed for a behaviour; the parser    *)
(* object is constructed by Open and then driven by getNextCandle,         *)
(* getPrevCandle, getCandleNumber and getCandleAt.                         *)
(*                                                                         *)
(* JavaScript numbers are modelled as extended rationals (a normalised     *)
(* fraction, NaN, +Infinity, -Infinity): candleNumber becomes a fraction   *)
(* or an infinity through the division in getCandleAt.  Byte offsets and   *)
(* timestamps (milliseconds) stay integers, as they do in the code.        *)
(***************************************************************************)
EXTENDS Integers, Sequences, FiniteSets, TLC

VARIABLES
    disk,            \* the file: [exists, size, version, period, recs]
    opened,          \* TRUE once the constructor has returned
    version,         \* this.version
    period,          \* this.period
    start,           \* this.start, milliseconds
    candleNumber,    \* this.candleNumber, a JavaScript number
    byteOffset,      \* this.byteOffset
    candleByteSize,  \* this.candleByteSize
    filesize,        \* this.filesize
    afterNext,       \* TRUE iff the call before the last was a getNextCandle
                     \* that returned a candle
    op,              \* the last call: its name
    arg,             \* the last call: its argument (index or date), 0 if none
    pre,             \* the cursor before the last call
    out,             \* the last call: the candle returned or the error thrown
    reads,           \* the last call: the offsets readCandle read records at
    attempts         \* the last call: [i, candidates] of getCandleAt, see Result

vars == <<disk, opened, version, period, start, candleNumber, byteOffset,
          candleByteSize, filesize, afterNext, op, arg, pre, out, reads,
          attempts>>

(* ------------------------------ bounds --------------------------------- *)

\* the largest number of record slots of a file on disk
MaxRecs == 2
\* the largest index handed to getCandleNumber (the smallest is -1)
MaxIdx == 3
\* getNextCandle, getPrevCandle and getCandleAt are only called while
\* candleNumber is an integer within -MaxCN..MaxCN, or not finite
MaxCN == 4
\* the recursion of getCandleAt is unfolded at most this deep
MaxDepth == 60
\* the size of a file too small to hold a header
ShortSize == 100

\* the stored timestamps (seconds for version 400) a record can hold
RecSecs == {0, 60, 120}
\* the version codes a file can carry: legacy, newer, unknown
Versions == {400, 401, 402}
\* the periods (minutes) a file can carry
Periods == {0, 1}
\* the dates (milliseconds) handed to getCandleAt
Dates == {30000, 60000, 90000, 120000}

(* --------------------------- file layout ------------------------------- *)

\* the header is 148 bytes; record #0 starts right after it
HeaderSize == 148
\* record sizes of the two layouts
LegacySize == 44
NewSize == 60
\* the legacy version code
LegacyVersion == 400
\* the attempt cap of getCandleAt
MaxAttempts == 50
\* milliseconds per minute
MsPerMinute == 60000

\* the versions parser_data has a field layout for
SupportedVersions == {400, 401}

\* mutant: the newer record size whatever the version
sizeOfNewer(v) == NewSize

\* record size chosen by the constructor
sizeOf(v) == IF v = LegacyVersion THEN LegacySize ELSE NewSize

(* ------------------------- JavaScript numbers -------------------------- *)

Abs(x) == IF x < 0 THEN -x ELSE x

RECURSIVE GCD(_, _)
GCD(a, b) == IF b = 0 THEN a ELSE GCD(b, a % b)

NaN == [k |-> "nan", n |-> 0, d |-> 1]
PInf == [k |-> "pinf", n |-> 0, d |-> 1]
NInf == [k |-> "ninf", n |-> 0, d |-> 1]

\* the fraction n/d (d > 0) in lowest terms
Fin(n, d) ==
    LET g == GCD(Abs(n), d)
    IN  [k |-> "fin", n |-> n \div g, d |-> d \div g]

Num(n) == [k |-> "fin", n |-> n, d |-> 1]

IsInteger(a) == a.k = "fin" /\ a.d = 1

\* a + b
NumAdd(a, b) ==
    IF a.k = "nan" \/ b.k = "nan" THEN NaN
    ELSE IF a.k = "fin" /\ b.k = "fin" THEN Fin(a.n * b.d + b.n * a.d, a.d * b.d)
    ELSE IF a.k = "fin" THEN b
    ELSE IF b.k = "fin" THEN a
    ELSE IF a.k = b.k THEN a
    ELSE NaN

\* x / y for integers x and y (y = 0 is +0: 60000 * 0)
NumDiv(x, y) ==
    IF y = 0 THEN (IF x > 0 THEN PInf ELSE IF x < 0 THEN NInf ELSE NaN)
    ELSE IF y > 0 THEN Fin(x, y)
    ELSE Fin(-x, -y)

\* Math.floor(a / 2)
NumFloorHalf(a) ==
    IF a.k = "fin" THEN Num(a.n \div (2 * a.d)) ELSE a

\* 148 + a * size < limit
OffsetBelow(a, size, limit) ==
    CASE a.k = "nan" -> FALSE
      [] a.k = "pinf" -> FALSE
      [] a.k = "ninf" -> TRUE
      [] OTHER -> HeaderSize * a.d + a.n * size < limit * a.d

(* ------------------------------ the disk ------------------------------- *)

\* the size of a file of n record slots, the last one cut after its
\* 4-byte timestamp when partial
SizeOf(v, n, partial) ==
    HeaderSize + n * sizeOf(v) - (IF partial THEN sizeOf(v) - 4 ELSE 0)

\* history files hold their records in time order
Chronological(r) == \A j \in 1..(Len(r) - 1) : r[j] <= r[j + 1]

Disks ==
    { [exists |-> FALSE, size |-> 0, version |-> 400, period |-> 1, recs |-> <<>>],
      [exists |-> TRUE, size |-> ShortSize, version |-> 400, period |-> 1, recs |-> <<>>],
      [exists |-> TRUE, size |-> HeaderSize - 1, version |-> 400, period |-> 1, recs |-> <<>>] }
    \cup
    { [exists |-> TRUE, size |-> SizeOf(v, Len(r), p), version |-> v,
       period |-> m, recs |-> r] :
        <<v, m, p, r>> \in { x \in Versions \X Periods \X BOOLEAN \X
                                   UNION { [1..n -> RecSecs] : n \in 0..MaxRecs } :
                               /\ x[3] => Len(x[4]) >= 1
                               /\ Chronological(x[4]) } }

\* fs.readSync of a 4-byte little-endian integer at a record boundary: bytes
\* past the end of the file are not read and the zero-filled buffer stays 0
readInt32(pos) ==
    IF pos >= HeaderSize /\ pos + 4 <= disk.size
    THEN disk.recs[((pos - HeaderSize) \div sizeOf(disk.version)) + 1]
    ELSE 0

(* ----------------------------- results --------------------------------- *)

Candle(ts, pos) == [kind |-> "candle", timestamp |-> ts, at |-> pos, msg |-> ""]
Error(m) == [kind |-> "error", timestamp |-> 0, at |-> 0, msg |-> m]
NoResult == [kind |-> "none", timestamp |-> 0, at |-> 0, msg |-> ""]

Cursor(cn, bo) == [candleNumber |-> cn, byteOffset |-> bo]

\* what a method leaves behind: the cursor fields, the value returned or
\* thrown, the offsets records were read at, and for getCandleAt the value
\* of i in its innermost invocation, the number of candidates decoded and
\* the step each invocation took
Result(cn, bo, o, rd, i, nc) ==
    [candleNumber |-> cn, byteOffset |-> bo, out |-> o, reads |-> rd,
     attempts |-> [i |-> i, candidates |-> nc, steps |-> {}]]

(* ----------------------------- the methods ----------------------------- *)

\* mutant: the clamp to the header end left out
clampOffsetNone(bo) == bo

\* readCandle, lines 181-183: the offset the record is read at
clampOffset(bo) == IF bo < HeaderSize THEN HeaderSize ELSE bo

\* mutant: every version's stored value taken as seconds
decodeDateSeconds(raw) == raw * 1000

\* readCandle, lines 186-190: the date decoder
decodeDate(raw) == IF version = LegacyVersion THEN raw * 1000 ELSE raw

\* readCandle: clamps byteOffset, then decodes the record at byteOffset; a
\* version without a field layout makes Object.entries throw a TypeError
\* after the clamp
readCandle(cn, bo) ==
    LET b == clampOffset(bo)
    IN  IF version \in SupportedVersions
        THEN Result(cn, b, Candle(decodeDate(readInt32(b)), b), {b}, 0, 0)
        ELSE Result(cn, b, Error("TypeError"), {}, 0, 0)

\* mutant: the guard tested on the offset before the step alone
nextGuardBefore(bo) == bo <= filesize

\* getNextCandle, line 74
nextGuard(bo) == bo + candleByteSize <= filesize

getNextCandle(cn, bo) ==
    IF nextGuard(bo)
    THEN readCandle(NumAdd(cn, Num(1)), bo + candleByteSize)
    ELSE Result(cn, bo, Error("Already at end of file"), {}, 0, 0)

\* mutant: the comparison with the header end made strict
prevGuardStrict(bo) == bo - candleByteSize > HeaderSize

\* getPrevCandle, line 98
prevGuard(bo) == bo - candleByteSize >= HeaderSize

getPrevCandle(cn, bo) ==
    IF prevGuard(bo)
    THEN readCandle(NumAdd(cn, Num(-1)), bo - candleByteSize)
    ELSE Result(cn, bo, Error("Already at start of file"), {}, 0, 0)

\* mutant: the comparison with filesize made inclusive
seekGuardInclusive(index) == OffsetBelow(index, candleByteSize, filesize + 1)

\* getCandleNumber, line 124-125: newByteOffset < this.filesize
seekGuard(index) == OffsetBelow(index, candleByteSize, filesize)

\* getCandleNumber: candleNumber is assigned first; newByteOffset is only
\* compared with filesize and never stored, so the record is read at the
\* byteOffset the cursor already had
getCandleNumber(bo, index) ==
    IF seekGuard(index)
    THEN readCandle(index, bo)
    ELSE Result(index, bo, Error("File too small"), {}, 0, 0)

\* mutant: the cap compared with <= instead of <
moreAttemptsInclusive(i) == i <= MaxAttempts

\* getCandleAt, lines 155 and 157: i < 50
moreAttempts(i) == i < MaxAttempts

\* getCandleAt, line 151
candleOffset(date, startDate) == NumDiv(date - startDate, MsPerMinute * period)

\* mutant: the halving branch tried before the re-anchoring branch
branchOfHalvingFirst(i, ts, date) ==
    IF ts = date THEN 1
    ELSE IF moreAttempts(i) THEN 3
    ELSE 4

\* getCandleAt, lines 153-161: the branch an invocation takes once its
\* candidate is decoded, ts being candle.timestamp.getTime()
branchOf(i, ts, date) ==
    IF ts = date THEN 1
    ELSE IF moreAttempts(i) /\ ts # 0 THEN 2
    ELSE IF moreAttempts(i) THEN 3
    ELSE 4

\* startDate of an invocation that hands nothing on
NoAnchor == -1

\* what one invocation did: its i, its candidate's timestamp, the branch it
\* took, and the startDate and i it handed to the next invocation
Step(i, ts, branch, anchor, nextI) ==
    [i |-> i, ts |-> ts, branch |-> branch, anchor |-> anchor, nextI |-> nextI]

\* one invocation of getCandleAt(date, startDate, i) on the cursor of s,
\* lines 151-162: it ends the call (done) or hands startDate and i + 1 to
\* the next invocation
Invocation(cn, bo, date, startDate, i, rd, nc, done, o, st) ==
    [candleNumber |-> cn, byteOffset |-> bo, date |-> date,
     startDate |-> startDate, i |-> i, reads |-> rd, candidates |-> nc,
     done |-> done, out |-> o, steps |-> st]

attempt(s) ==
    LET c1 == getCandleNumber(s.byteOffset,
                  NumAdd(s.candleNumber, candleOffset(s.date, s.startDate)))
        rd1 == s.reads \cup c1.reads
        nc1 == s.candidates + Cardinality(c1.reads)
        ts == c1.out.timestamp
        c2 == getCandleNumber(c1.byteOffset, NumFloorHalf(c1.candleNumber))
        b == branchOf(s.i, ts, s.date)
    IN  IF c1.out.kind = "error"
        THEN Invocation(c1.candleNumber, c1.byteOffset, s.date, s.startDate,
                        s.i, rd1, nc1, TRUE, c1.out, s.steps)
        ELSE IF b = 1
        THEN Invocation(c1.candleNumber, c1.byteOffset, s.date, s.startDate,
                        s.i, rd1, nc1, TRUE, c1.out,
                        s.steps \cup {Step(s.i, ts, 1, NoAnchor, s.i)})
        ELSE IF b = 2
        THEN Invocation(c1.candleNumber, c1.byteOffset, s.date, ts,
                        s.i + 1, rd1, nc1, FALSE, NoResult,
                        s.steps \cup {Step(s.i, ts, 2, ts, s.i + 1)})
        ELSE IF b = 3
        THEN IF c2.out.kind = "error"
             THEN Invocation(c2.candleNumber, c2.byteOffset, s.date,
                             s.startDate, s.i, rd1 \cup c2.reads, nc1,
                             TRUE, c2.out,
                             s.steps \cup {Step(s.i, ts, 3, NoAnchor, s.i)})
             ELSE Invocation(c2.candleNumber, c2.byteOffset, s.date,
                             c2.out.timestamp, s.i + 1, rd1 \cup c2.reads,
                             nc1, FALSE, NoResult,
                             s.steps \cup {Step(s.i, ts, 3, c2.out.timestamp,
                                                s.i + 1)})
        ELSE Invocation(c1.candleNumber, c1.byteOffset, s.date, s.startDate,
                        s.i, rd1, nc1, TRUE, Error("Candle not found"),
                        s.steps \cup {Step(s.i, ts, 4, NoAnchor, s.i)})

\* n invocations in a row, stopping at the one that ends the call
RECURSIVE attemptsFrom(_, _)
attemptsFrom(s, n) ==
    IF s.done \/ n = 0 THEN s
    ELSE IF n = 1 THEN attempt(s)
    ELSE CHOOSE r \in { attemptsFrom(m, n - (n \div 2)) :
                            m \in { attemptsFrom(s, n \div 2) } } : TRUE

\* getCandleAt(date) with its defaults startDate = this.start and i = 0, the
\* recursion followed for at most MaxDepth invocations
getCandleAt(cn, bo, date) ==
    LET s == attemptsFrom(Invocation(cn, bo, date, start, 0, {}, 0, FALSE,
                                     NoResult, {}), MaxDepth)
        r == Result(s.candleNumber, s.byteOffset,
                    IF s.done THEN s.out ELSE Error("diverged"),
                    s.reads, s.i, s.candidates)
    IN  [r EXCEPT !.attempts.steps = s.steps]

(* ------------------------------ actions -------------------------------- *)

TypeOK ==
    /\ disk \in Disks
    /\ opened \in BOOLEAN
    /\ byteOffset \in Int
    /\ candleNumber.k \in {"fin", "nan", "pinf", "ninf"}

Init ==
    /\ disk \in Disks
    /\ opened = FALSE
    /\ version = 0
    /\ period = 0
    /\ start = 0
    /\ candleNumber = Num(0)
    /\ byteOffset = 0
    /\ candleByteSize = 0
    /\ filesize = 0
    /\ afterNext = FALSE
    /\ op = "none"
    /\ arg = 0
    /\ pre = Cursor(Num(0), 0)
    /\ out = NoResult
    /\ reads = {}
    /\ attempts = [i |-> 0, candidates |-> 0, steps |-> {}]

\* mutant: a file of exactly the header's size refused
tooSmallInclusive(size) == size <= HeaderSize

\* the constructor, line 35: this.filesize < 148
tooSmall(size) == size < HeaderSize

\* the constructor, lines 26-63; the file, when it exists, is one that
\* fs.openSync can open
Open ==
    /\ ~opened
    /\ afterNext' = (op = "next" /\ out.kind = "candle")
    /\ op' = "open"
    /\ arg' = 0
    /\ pre' = Cursor(candleNumber, byteOffset)
    /\ reads' = {}
    /\ attempts' = [i |-> 0, candidates |-> 0, steps |-> {}]
    /\ UNCHANGED disk
    /\ IF ~disk.exists
       THEN /\ out' = Error("Could not find file")
            /\ UNCHANGED <<opened, version, period, start, candleNumber,
                           byteOffset, candleByteSize, filesize>>
       ELSE IF tooSmall(disk.size)
       THEN /\ out' = Error("File too small")
            /\ UNCHANGED <<opened, version, period, start, candleNumber,
                           byteOffset, candleByteSize, filesize>>
       ELSE /\ out' = NoResult
            /\ opened' = TRUE
            /\ filesize' = disk.size
            /\ version' = disk.version
            /\ period' = disk.period
            /\ start' = readInt32(HeaderSize) * 1000
            /\ candleByteSize' = sizeOf(disk.version)
            /\ byteOffset' = HeaderSize - sizeOf(disk.version)
            /\ candleNumber' = Num(0)

\* a method call commits what the method leaves behind
Commit(name, a, r) ==
    /\ afterNext' = (op = "next" /\ out.kind = "candle")
    /\ op' = name
    /\ arg' = a
    /\ pre' = Cursor(candleNumber, byteOffset)
    /\ candleNumber' = r.candleNumber
    /\ byteOffset' = r.byteOffset
    /\ out' = r.out
    /\ reads' = r.reads
    /\ attempts' = r.attempts
    /\ UNCHANGED <<disk, opened, version, period, start, candleByteSize, filesize>>

\* keeps candleNumber, which no method bounds, in a finite set: only
\* getCandleNumber, which overwrites it, is called once candleNumber is a
\* fraction or an integer outside -MaxCN..MaxCN
InRange(a) == a.k = "fin" => (a.d = 1 /\ Abs(a.n) <= MaxCN)

NextCandle ==
    /\ opened
    /\ InRange(candleNumber)
    /\ Commit("next", 0, getNextCandle(candleNumber, byteOffset))

PrevCandle ==
    /\ opened
    /\ InRange(candleNumber)
    /\ Commit("prev", 0, getPrevCandle(candleNumber, byteOffset))

CandleNumber ==
    /\ opened
    /\ \E index \in -1..MaxIdx :
          Commit("seek", index, getCandleNumber(byteOffset, Num(index)))

CandleAt ==
    /\ opened
    /\ InRange(candleNumber)
    /\ \E date \in Dates :
          Commit("locate", date,
                 getCandleAt(candleNumber, byteOffset, date))

Next == Open \/ NextCandle \/ PrevCandle \/ CandleNumber \/ CandleAt

Spec == Init /\ [][Next]_vars

(* ------------------------- the async counterparts ---------------------- *)

\* mutant: the executor without its try/catch, so that an error of the
\* synchronous method leaves the call as a synchronous throw
newPromiseUncaught(r) ==
    [r EXCEPT !.out.kind = IF @ = "candle" THEN "resolved" ELSE "thrown"]

\* new Promise((resolve, reject) => { try { resolve(f()) } catch (err)
\* { reject(err) } }): the executor runs f at once, on the same object, and
\* the promise is resolved with what f returned or rejected with what it threw
newPromise(r) ==
    [r EXCEPT !.out.kind = IF @ = "candle" THEN "resolved" ELSE "rejected"]

NextCandleAsync ==
    /\ opened
    /\ InRange(candleNumber)
    /\ Commit("nextAsync", 0, newPromise(getNextCandle(candleNumber, byteOffset)))

PrevCandleAsync ==
    /\ opened
    /\ InRange(candleNumber)
    /\ Commit("prevAsync", 0, newPromise(getPrevCandle(candleNumber, byteOffset)))

CandleNumberAsync ==
    /\ opened
    /\ \E index \in -1..MaxIdx :
          Commit("seekAsync", index,
                 newPromise(getCandleNumber(byteOffset, Num(index))))

CandleAtAsync ==
    /\ opened
    /\ InRange(candleNumber)
    /\ \E date \in Dates :
          Commit("locateAsync", date,
                 newPromise(getCandleAt(candleNumber, byteOffset, date)))

\* a caller that uses the async methods only
NextAsync ==
    Open \/ NextCandleAsync \/ PrevCandleAsync \/ CandleNumberAsync
         \/ CandleAtAsync

SpecAsync == Init /\ [][NextAsync]_vars

(* ------------------------------ claims --------------------------------- *)

Positioning == op \in {"next", "prev", "seek", "locate"}
Returned == out.kind = "candle"
Failed == out.kind = "error"

\* the decoded timestamp of the record stored at byte offset pos
storedTimestamp(pos) == decodeDate(readInt32(pos))

\* the number of complete records of the file
completeRecords == (filesize - HeaderSize) \div candleByteSize

\* byte offset of record #k
offsetOf(k) == HeaderSize + k * candleByteSize

\* the cursor the constructor leaves
freshCursor == Cursor(Num(0), HeaderSize - candleByteSize)

\* C1 (as claimed): after every successful positioning call
\* byteOffset = 148 + candleNumber * candleByteSize.
C1_OffsetMatchesIndex ==
    (opened /\ Positioning /\ Returned) =>
        /\ candleNumber.k = "fin"
        /\ byteOffset * candleNumber.d =
               HeaderSize * candleNumber.d + candleNumber.n * candleByteSize

\* C2 (as claimed): a positioning call that fails leaves candleNumber and
\* byteOffset as they were before the call.
C2_FailureKeepsCursor ==
    (opened /\ Positioning /\ Failed) =>
        Cursor(candleNumber, byteOffset) = pre

\* C3 (as claimed): every record read of a call is issued at an offset
\* inside the record area: offset >= 148 and offset + candleByteSize <=
\* filesize.
C3_ReadsInsideFile ==
    opened => \A r \in reads :
                 r >= HeaderSize /\ r + candleByteSize <= filesize

\* C4 (as claimed): getCandleNumber(index) for an index whose record lies
\* wholly in the file returns the record stored at 148 + index *
\* candleByteSize, whatever the cursor was before.
C4_SeekReturnsIndexedRecord ==
    (opened /\ op = "seek" /\ version \in SupportedVersions
        /\ 0 <= arg /\ arg < completeRecords) =>
        out = Candle(storedTimestamp(offsetOf(arg)), offsetOf(arg))

\* C5 (as claimed): when getNextCandle has returned a candle, an immediately
\* following getPrevCandle returns a candle and leaves candleNumber and
\* byteOffset as they were before the getNextCandle.
C5_NextPrevRoundTrip ==
    [][(op = "next" /\ Returned /\ op' = "prev") =>
          (out'.kind = "candle"
             /\ Cursor(candleNumber', byteOffset') = pre)]_vars

\* C5 (amended): the same, from a cursor that is on a record (byteOffset >=
\* 148, that is after any read) with an integer candleNumber; the candle
\* returned is then the one at the offset the cursor started from.
C5_NextPrevRoundTripOnRecord ==
    [][(op = "next" /\ Returned /\ op' = "prev"
          /\ pre.byteOffset >= HeaderSize /\ IsInteger(pre.candleNumber)) =>
          (out' = Candle(storedTimestamp(pre.byteOffset), pre.byteOffset)
             /\ Cursor(candleNumber', byteOffset') = pre)]_vars

\* C5 witness: a getPrevCandle that returned a candle right after a
\* getNextCandle that returned one, started from a cursor on a record.
C5_Witness ==
    /\ op = "prev" /\ Returned /\ afterNext
    /\ byteOffset >= HeaderSize /\ IsInteger(candleNumber)
    /\ pre = Cursor(NumAdd(candleNumber, Num(1)), byteOffset + candleByteSize)

\* C6 (as claimed): getPrevCandle called while candleNumber is 0 fails with
\* "Already at start of file".
C6_PrevAtZeroFails ==
    (opened /\ op = "prev" /\ version \in SupportedVersions
        /\ pre.candleNumber = Num(0)) =>
        out = Error("Already at start of file")

\* C7 (as claimed): getNextCandle called while the cursor is on the last
\* complete record of the file fails with "Already at end of file".
C7_NextAtLastFails ==
    (opened /\ op = "next" /\ version \in SupportedVersions
        /\ pre.byteOffset >= HeaderSize
        /\ pre.byteOffset + candleByteSize <= filesize
        /\ pre.byteOffset + 2 * candleByteSize > filesize) =>
        out = Error("Already at end of file")

\* a legacy file whose records are exactly period minutes apart, the first
\* one at a nonzero time
uniformLegacy ==
    /\ version = LegacyVersion
    /\ period >= 1
    /\ completeRecords >= 1
    /\ storedTimestamp(offsetOf(0)) # 0
    /\ \A k \in 1..(completeRecords - 1) :
          storedTimestamp(offsetOf(k)) =
              storedTimestamp(offsetOf(k - 1)) + period * MsPerMinute

\* C8 (as claimed): on such a file, getCandleAt(t) called right after open
\* with t the timestamp of record #k returns record #k in the first
\* invocation (i = 0).
C8_ExactMatchFirstAttempt ==
    (opened /\ op = "locate" /\ pre = freshCursor /\ uniformLegacy) =>
        \A k \in 0..(completeRecords - 1) :
            arg = storedTimestamp(offsetOf(k)) =>
                (out = Candle(arg, offsetOf(k)) /\ attempts.i = 0)

\* C9: getCandleAt ends within the attempt cap: i never exceeds 50, at most
\* 51 candidates are decoded, and the call returns a candle or an error.
C9_AttemptCap ==
    (opened /\ op = "locate") =>
        /\ attempts.i <= MaxAttempts
        /\ attempts.candidates <= MaxAttempts + 1
        /\ out.kind \in {"candle", "error"}
        /\ out.msg # "diverged"

\* C9 witness: a getCandleAt on a file with a period of a minute that used
\* all 51 invocations and failed at the cap.
C9_Witness ==
    /\ opened /\ op = "locate"
    /\ period >= 1 /\ candleNumber.k = "fin"
    /\ attempts.i = MaxAttempts
    /\ attempts.candidates = MaxAttempts + 1
    /\ out = Error("Candle not found")

\* t lies strictly between the first and the last stored timestamp and is
\* the timestamp of no stored record
inGap(t) ==
    /\ completeRecords >= 2
    /\ storedTimestamp(offsetOf(0)) < t
    /\ t < storedTimestamp(offsetOf(completeRecords - 1))
    /\ \A k \in 0..(completeRecords - 1) : storedTimestamp(offsetOf(k)) # t

\* C10 (as claimed): getCandleAt(t) for t in a data gap (of a file with a
\* period of at least a minute) returns a candle or fails with "Candle not
\* found", never with another error.
C10_GapFailsOnlyNotFound ==
    (opened /\ op = "locate" /\ version \in SupportedVersions
        /\ period >= 1 /\ inGap(arg)) =>
        (Returned \/ out = Error("Candle not found"))


\* C11 (as claimed): getCandleNumber(0) called first after open, on a file
\* with at least one complete record, reads the record at byte offset 148,
\* whatever the version.
C11_SeekZeroReadsFirstRecord ==
    (opened /\ op = "seek" /\ arg = 0 /\ pre = freshCursor
        /\ completeRecords >= 1) =>
        (reads = {HeaderSize}
           /\ out = Candle(storedTimestamp(HeaderSize), HeaderSize))

\* C11 (amended): the same for every version that has a field layout, the
\* legacy one (44-byte records) and the newer one (60-byte records); the
\* cursor is then at byte offset 148.
C11_SeekZeroReadsFirstRecordSupported ==
    (opened /\ op = "seek" /\ arg = 0 /\ pre = freshCursor
        /\ completeRecords >= 1 /\ version \in SupportedVersions) =>
        (reads = {HeaderSize}
           /\ out = Candle(storedTimestamp(HeaderSize), HeaderSize)
           /\ byteOffset = HeaderSize)

\* C11 witness: getCandleNumber(0) right after open on a file of 60-byte
\* records returned the record at 148.
C11_Witness ==
    /\ opened /\ op = "seek" /\ arg = 0 /\ pre = freshCursor
    /\ completeRecords >= 1 /\ candleByteSize = NewSize
    /\ reads = {HeaderSize} /\ Returned /\ out.timestamp # 0


\* C12: getCandleNumber(index) fails with "File too small" exactly when
\* 148 + index * candleByteSize >= filesize; a negative index is not
\* rejected, and candleNumber is set to index whatever the outcome.
C12_SeekFailsExactlyBeyondFile ==
    (opened /\ op = "seek") =>
        /\ (out = Error("File too small"))
               <=> (HeaderSize + arg * candleByteSize >= filesize)
        /\ candleNumber = Num(arg)

\* C12 witness: getCandleNumber(-1) was not rejected and returned a record,
\* leaving candleNumber = -1.
C12_Witness ==
    /\ opened /\ op = "seek" /\ arg = -1 /\ Returned
    /\ candleNumber = Num(-1) /\ completeRecords >= 1


syncFromPre ==
    CASE op = "nextAsync" -> getNextCandle(pre.candleNumber, pre.byteOffset)
      [] op = "prevAsync" -> getPrevCandle(pre.candleNumber, pre.byteOffset)
      [] op = "seekAsync" -> getCandleNumber(pre.byteOffset, Num(arg))
      [] op = "locateAsync" ->
            getCandleAt(pre.candleNumber, pre.byteOffset, arg)
      [] OTHER -> Result(candleNumber, byteOffset, NoResult, {}, 0, 0)

openedFresh ==
    /\ candleNumber = Num(0)
    /\ candleByteSize = (IF version = 400 THEN 44 ELSE 60)
    /\ byteOffset = 148 - candleByteSize

\* the call lands at byte offset 148 and returns the record stored there
landedOnFirst ==
    /\ byteOffset = HeaderSize
    /\ reads = {HeaderSize}
    /\ out = Candle(storedTimestamp(HeaderSize), HeaderSize)

\* C15 (as claimed): right after a successful open candleNumber = 0 and
\* byteOffset = 148 - candleByteSize, with candleByteSize 44 for version 400
\* and 60 for every other version; the first getNextCandle lands at byte
\* offset 148 and returns the first record of the file.
C15_FirstNextLandsOnFirstRecord ==
    /\ (opened /\ op = "open") => openedFresh
    /\ (opened /\ op = "next" /\ pre = freshCursor /\ completeRecords >= 1)
          => landedOnFirst

\* C15 (amended): the cursor after open is as claimed for every version;
\* the first getNextCandle lands at 148 and returns the first record when
\* the version has a field layout.
C15_FirstNextLandsOnFirstRecordSupported ==
    /\ (opened /\ op = "open") => openedFresh
    /\ (opened /\ op = "next" /\ pre = freshCursor /\ completeRecords >= 1
           /\ version \in SupportedVersions) => landedOnFirst
    /\ (opened /\ op = "next" /\ pre = freshCursor
           /\ version \notin SupportedVersions) =>
              (byteOffset = HeaderSize /\ reads = {} /\ Failed)

\* C15 witness: the first getNextCandle on a legacy file went from byte
\* offset 104 to 148 and returned the first record.
C15_Witness ==
    /\ opened /\ op = "next" /\ pre = Cursor(Num(0), 104)
    /\ version = 400 /\ candleByteSize = 44 /\ completeRecords >= 1
    /\ byteOffset = 148 /\ Returned /\ out.at = 148 /\ out.timestamp # 0


\* C16: every invocation of getCandleAt takes (1) return when the candidate's
\* timestamp equals the target, else (2) retry anchored on the candidate's
\* timestamp with i + 1 when i < 50 and that timestamp is nonzero, else (3)
\* halve and retry with i + 1 when i < 50, else (4) fail with "Candle not
\* found"; the halving branch is taken only on a zero timestamp.
C16_BranchOrder ==
    (opened /\ op = "locate") =>
        \A b \in attempts.steps :
            /\ b.branch = (IF b.ts = arg THEN 1
                           ELSE IF b.i < 50 /\ b.ts # 0 THEN 2
                           ELSE IF b.i < 50 THEN 3
                           ELSE 4)
            /\ b.branch = 3 => b.ts = 0
            /\ b.branch = 1 => (Returned /\ out.timestamp = arg)
            /\ b.branch = 2 => (b.anchor = b.ts /\ b.nextI = b.i + 1)
            /\ (b.branch = 3 /\ b.anchor # NoAnchor) => b.nextI = b.i + 1
            /\ b.branch = 4 => out = Error("Candle not found")

\* C16 witness: one call of getCandleAt halved on a candidate of timestamp
\* zero while i < 50 and gave up at i = 50.
C16_Witness ==
    /\ opened /\ op = "locate" /\ arg # 0
    /\ \E b \in attempts.steps : b.branch = 3 /\ b.i < 50 /\ b.ts = 0
    /\ \E b \in attempts.steps : b.branch = 4 /\ b.i = 50
    /\ out = Error("Candle not found")


\* C17: a decoded record's timestamp is the stored integer times 1000 for
\* version 400 and the stored integer itself for any other version; the
\* header start time is the integer stored at offset 148 times 1000; so the
\* timestamp of record #0 equals the start time exactly when the version is
\* 400 or the stored value is 0.
C17_TimestampScaling ==
    /\ (opened /\ Positioning /\ Returned) =>
           out.timestamp = (IF version = 400 THEN readInt32(out.at) * 1000
                                             ELSE readInt32(out.at))
    /\ opened => start = readInt32(148) * 1000
    /\ (opened /\ Positioning /\ Returned /\ out.at = 148) =>
           ((out.timestamp = start) <=> (version = 400 \/ readInt32(148) = 0))

\* C17 witness: record #0 of a file of the newer version, stored as 60, was
\* decoded as 60 while the header start time is 60000.
C17_Witness ==
    /\ opened /\ Positioning /\ Returned /\ out.at = 148
    /\ version = 401 /\ completeRecords >= 1 /\ readInt32(148) = 60
    /\ out.timestamp = 60 /\ start = 60000


\* C18: candleNumber and byteOffset hold integer values in every reachable
\* state of a parser, also after getCandleAt with a target that is not a
\* whole number of periods away from the reference time, and with period 0.
C18_CursorIntegral ==
    opened => (IsInteger(candleNumber) /\ byteOffset \in Int)


\* C19: in every state reachable from a successful open by next, prev, seek
\* and locate calls, 148 - candleByteSize <= byteOffset <= filesize, and
\* after a call that returned a record byteOffset >= 148.
C19_ByteOffsetBounds ==
    /\ opened => (148 - candleByteSize <= byteOffset /\ byteOffset <= filesize)
    /\ (opened /\ Positioning /\ Returned) => byteOffset >= 148

\* C19 witness: after getNextCandle calls that returned records the cursor
\* stands at byteOffset = filesize, the upper bound, on a file of two records.
C19_Witness ==
    /\ opened /\ op = "next" /\ Returned /\ completeRecords = 2
    /\ byteOffset = filesize /\ pre.byteOffset = filesize - candleByteSize

====
